---- MODULE Spec2Model ----
(***************************************************************************)
(* Model of tpm_quote() and sha1() of xentpm/xenquote.c: one run of the    *)
(* quote pipeline (challenge hashing, AIK load, PCR selection, quote,      *)
(* reassembly of the serialized PCR composite, verification against the    *)
(* composite hash with the one-byte-shorter fallback, output file).        *)
(* Memory is modelled byte by byte; C offset k of a buffer is element k+1  *)
(* of the sequence that models it.                                         *)
(***************************************************************************)
EXTENDS Integers, Sequences, FiniteSets, TLC

\* Largest PCR count the capability query reports in the model.
MaxPcr == 24

\* Length of one PCR value / of a SHA-1 digest (tmpbufLen, sizeof(chalmd)).
DigestLen == 20

\* Length of the quote signature (valid.ulValidationDataLength).
SigLen == 256

\* Content of a byte of malloc'ed memory that was never written.
Uninit == -1

\* 2^16: the width of the UINT16 mask-length field.  The UINT32 quantities of
\* the run (npcrMax, npcrBytes, npcrs, bufLen, 20*npcrs) stay far below 2^31
\* for every modelled PCR count, except npcrBytes-1, which wraps to 2^32-1
\* when npcrBytes is 0 and is then cut to 16 bits by htons: (x mod 2^32) mod
\* 2^16 = x mod 2^16.
Word16 == 65536

RECURSIVE Pow2(_)
Pow2(n) == IF n = 0 THEN 1 ELSE 2 * Pow2(n - 1)

\* htons(v) stored through a UINT16 pointer: two bytes, most significant first.
Htons(v) == << ((v % Word16) \div 256) % 256, v % 256 >>

\* htonl(v) stored through a UINT32 pointer: four bytes, most significant first.
Htonl(v) == << (v \div 16777216) % 256, (v \div 65536) % 256, (v \div 256) % 256, v % 256 >>

\* npcrBytes = (npcrMax + 7) / 8 in UINT32 arithmetic.
NpcrBytes(n) == (n + 7) \div 8

\* malloc (2 + npcrBytes + 4 + 20 * npcrMax)
AllocSize(n) == 2 + NpcrBytes(n) + 4 + DigestLen * n

\* Store the bytes s at C offset off of buffer b (the caller checks the bounds).
Poke(b, off, s) ==
    [k \in 1..Len(b) |-> IF k - 1 >= off /\ k - 1 < off + Len(s) THEN s[k - off] ELSE b[k]]

\* *(UINT16 *)buf = htons(npcrBytes); for (i<npcrBytes) buf[2+i] = 0;
InitBuf(n) ==
    [k \in 1..AllocSize(n) |->
        IF k <= 2 THEN Htons(NpcrBytes(n))[k]
        ELSE IF k <= 2 + NpcrBytes(n) THEN 0 ELSE Uninit]

\* Faulty variant of SetPcrBit: the byte is assigned instead of or-ed.
SetPcrBitMut(b, pcr) == Poke(b, 2 + (pcr \div 8), << Pow2(pcr % 8) >>)

\* buf[2+(pcr/8)] |= 1 << (pcr%8);  (BYTE arithmetic)
SetPcrBit(b, pcr) ==
    LET off  == 2 + (pcr \div 8)
        old  == b[off + 1]
        bit  == Pow2(pcr % 8)
        new  == IF (old \div bit) % 2 = 1 THEN old ELSE (old + bit) % 256
    IN  Poke(b, off, << new >>)

\* Faulty variant of FillTest: the mask bit is not looked at.
FillTestMut(b, idx) == { TRUE }

\* The outcomes of  buf[2+(i/8)] & (1 << (i%8)) : a never-written byte may read as anything.
FillTest(b, idx) ==
    LET byte == b[2 + (idx \div 8) + 1]
    IN  IF byte = Uninit THEN BOOLEAN ELSE { (byte \div Pow2(idx % 8)) % 2 = 1 }

\* Faulty variant of FillHeader: the value length is the PCR count, not 20 times it.
FillHeaderMut(b, nbytes, cnt) == Poke(b, 2 + nbytes, Htonl(cnt))

\* bp = buf + 2 + npcrBytes; *(UINT32 *)bp = htonl (20*npcrs); bp += sizeof(UINT32);
FillHeader(b, nbytes, cnt) == Poke(b, 2 + nbytes, Htonl(DigestLen * cnt))

\* The fallback of the verification: the length field is rewritten with
\* npcrBytes-1 and the tail is moved one byte towards the start:
\*   *(UINT16 *)buf = htons(npcrBytes-1);
\*   memmove (buf+2+npcrBytes-1, buf+2+npcrBytes, bufLen-2-npcrBytes);
FallbackBuf(b, nbytes, len) ==
    LET b1   == Poke(b, 0, Htons(nbytes - 1))
        tail == [k \in 1..(len - 2 - nbytes) |-> b1[2 + nbytes + k]]
    IN  Poke(b1, 2 + nbytes - 1, tail)

\* bufLen -= 1;
FallbackLen(len) == len - 1

\* Faulty variant of HashMatches: the outcome of the comparison is ignored.
HashMatchesMut(md, composite) == TRUE

\* memcmp (pcrmd, quoteInfo->compositeHash.digest, sizeof(pcrmd)) == 0
HashMatches(md, composite) == md = composite

(***************************************************************************)
(* The attestation collaborator (TrouSerS / the TPM).                      *)
(***************************************************************************)

\* The module's SHA-1 (Tspi_Hash_UpdateHashValue / GetHashValue), modelled
\* by a position-dependent checksum over the whole message (combined as a
\* balanced tree) expanded to DigestLen bytes; byte 3 is never 0, so no
\* message hashes to the all-zero digest.
RECURSIVE Fold(_, _, _)
Fold(s, lo, hi) ==
    IF lo > hi THEN 7
    ELSE IF lo = hi THEN ((s[lo] + 1) * 131 + lo) % 65521
    ELSE LET mid == (lo + hi) \div 2
         IN  (Fold(s, lo, mid) * 31 + Fold(s, mid + 1, hi) * 17 + 3) % 65521

Sha1(s) ==
    LET h == (Fold(s, 1, Len(s)) + 257 * Len(s)) % 65521
    IN  [k \in 1..DigestLen |->
            IF k = 1 THEN h % 256
            ELSE IF k = 2 THEN h \div 256
            ELSE IF k = 3 THEN 1 + (h % 255)
            ELSE (h + k * k) % 256]

ZeroDigest == [k \in 1..DigestLen |-> 0]

\* A digest that is the hash of no buffer of the run.
BogusDigest == [k \in 1..DigestLen |-> 255]

\* The content of PCR idx as Tspi_PcrComposite_GetPcrValue returns it.
PcrValue(idx) == [k \in 1..DigestLen |-> (idx * 37 + k * 11 + 5) % 256]

\* The TPM's own serialization of TPM_PCR_COMPOSITE for the selection sel
\* with a select size of size bytes: what the TPM hashes into compositeHash.
RECURSIVE SumBits(_, _, _)
SumBits(sel, byteNo, bitNo) ==
    IF bitNo > 7 THEN 0
    ELSE (IF (8 * byteNo + bitNo) \in sel THEN Pow2(bitNo) ELSE 0) + SumBits(sel, byteNo, bitNo + 1)

RECURSIVE ValuesOf(_, _)
ValuesOf(sel, idx) ==
    IF idx > MaxPcr + 8 THEN << >>
    ELSE (IF idx \in sel THEN PcrValue(idx) ELSE << >>) \o ValuesOf(sel, idx + 1)

TpmComposite(sel, size) ==
    << size \div 256, size % 256 >>
    \o [k \in 1..size |-> SumBits(sel, k - 1, 0)]
    \o Htonl(DigestLen * Cardinality(sel))
    \o ValuesOf(sel, 0)

\* The select size of a TPM that covers exactly the selected indices.
TpmSelectSize(sel) == CHOOSE m \in 0..(MaxPcr + 8) : 8 * m >= Cardinality(sel) /\ 8 * (m - 1) < Cardinality(sel)

\* The composite hashes Tspi_TPM_Quote may return for the selection sel:
\* the hash over the full select size, over a select size one byte shorter
\* (the stack quirk the fallback exists for), or something else.
QuoteHashes(sel) ==
    { Sha1(TpmComposite(sel, TpmSelectSize(sel))), BogusDigest }
    \cup (IF TpmSelectSize(sel) >= 1
          THEN { Sha1(TpmComposite(sel, TpmSelectSize(sel) - 1)) } ELSE {})

Signature == [k \in 1..SigLen |-> (k * 7 + 3) % 256]

\* The files of the model.
NullPath == "NULL"

NonceFiles == { NullPath, "missing", "chal_abc", "chal_empty" }

AikFiles == { "missing", "aik_good", "aik_truncated" }

FileContent(path) ==
    IF path = "chal_abc" THEN << 97, 98, 99 >>
    ELSE IF path = "chal_empty" THEN << >>
    ELSE IF path = "aik_good" THEN << 1, 1, 0, 0 >>
    ELSE IF path = "aik_truncated" THEN << 1, 1 >>
    ELSE << >>

FileExists(path) == path \in { "chal_abc", "chal_empty", "aik_good", "aik_truncated" }

\* Tspi_Context_LoadKeyByBlob accepts only a complete blob.
BlobWellFormed(blob) == Len(blob) = 4

(***************************************************************************)
(* State of one run of tpm_quote.                                          *)
(***************************************************************************)
VARIABLES
    pc,             \* the statement the run is at (it stays there when the run ends)
    exitst,         \* "running", or how the run ended
    nonce_file,     \* argument: path of the challenge file
    aik_blob_file,  \* argument: path of the AIK blob
    buf,            \* BYTE *buf (reused for the challenge, the blob and the PCR buffer)
    bufLen,         \* UINT32 bufLen
    bp,             \* BYTE *bp, as an offset into buf
    i,              \* int i
    npcrMax,        \* UINT32 npcrMax
    npcrBytes,      \* UINT32 npcrBytes
    npcrs,          \* UINT32 npcrs
    chalmd,         \* BYTE chalmd[20]   (<< >> while never written)
    pcrmd,          \* BYTE pcrmd[20]    (<< >> while never written)
    hAIK,           \* TRUE once the AIK is loaded
    hPCRs,          \* the indices selected in the PCR composite object
    extData,        \* valid.rgbExternalData as passed to Tspi_TPM_Quote
    compositeHash,  \* quoteInfo->compositeHash.digest
    sigData,        \* valid.rgbValidationData
    f_out,          \* the output stream: [open, data accepted by fwrite]
    outFile,        \* the output file on disk: [exists, data]
    called,         \* history: the collaborator and file operations invoked so far
    failed,         \* history: the operations that reported a failure
    cmp1,           \* history: outcome of the first memcmp
    cmp2,           \* history: outcome of the second memcmp
    pcrReads,       \* history: the indices passed to Tspi_PcrComposite_GetPcrValue
    primary         \* history: the candidate record hashed by the first comparison

args  == << nonce_file, aik_blob_file >>
mem   == << buf, bufLen, bp, i, npcrMax, npcrBytes, npcrs, chalmd, pcrmd >>
tpm   == << hAIK, hPCRs, extData, compositeHash, sigData >>
files == << f_out, outFile >>
hist  == << cmp1, cmp2, pcrReads, primary >>
vars  == << pc, exitst, args, mem, tpm, files, called, failed, hist >>

NonZeroExits == { "return1", "exit1", "exit_status", "crash" }

OldOutput == << 9, 9, 9 >>

Init ==
    /\ pc = "take_ownership"
    /\ exitst = "running"
    /\ nonce_file \in NonceFiles
    /\ aik_blob_file \in AikFiles
    /\ buf = << >>
    /\ bufLen = 0
    /\ bp = 0
    /\ i = 0
    /\ npcrMax = 0
    /\ npcrBytes = 0
    /\ npcrs = 0
    /\ chalmd = << >>
    /\ pcrmd = << >>
    /\ hAIK = FALSE
    /\ hPCRs = {}
    /\ extData = << >>
    /\ compositeHash = << >>
    /\ sigData = << >>
    /\ f_out = [open |-> FALSE, data |-> << >>]
    /\ outFile \in { [exists |-> FALSE, data |-> << >>], [exists |-> TRUE, data |-> OldOutput] }
    /\ called = {}
    /\ failed = {}
    /\ cmp1 = "none"
    /\ cmp2 = "none"
    /\ pcrReads = << >>
    /\ primary = << >>

\* CKERR after a Tspi call (the macro is defined in xentpm.h): a result
\* other than TSS_SUCCESS (0) jumps to the error label.
CKERR(result) == result # 0

\* The results a collaborator call may return: TSS_SUCCESS or an error code.
TssResults == { 0, 1 }

\* error: log_msg(...); return 1;
GotoError(op) ==
    /\ exitst' = "return1"
    /\ failed' = failed \cup { op }
    /\ UNCHANGED pc

\* exit (1)
Exit1 ==
    /\ exitst' = "exit1"
    /\ UNCHANGED pc

\* sha1(): the results of the three Tspi_Hash calls are not looked at.  When
\* they fail, tmpbuf and tmpbufLen are never set and the memcpy copies from
\* an indeterminate pointer: the digest is then any of garbage, or the
\* process crashes.
sha1(data, garbage) ==
    { [ok |-> TRUE, crash |-> FALSE, md |-> Sha1(data)] }
    \cup { [ok |-> FALSE, crash |-> FALSE, md |-> g] : g \in garbage }
    \cup { [ok |-> FALSE, crash |-> TRUE, md |-> << >>] }

(***************************************************************************)
(* The statements of tpm_quote.                                            *)
(***************************************************************************)

\* result = take_ownership(); if (result) { ...; exit_status(result); }
\* (exit_status is declared in xentpm.h; it is taken to end the process with
\* the given nonzero status.)
TakeOwnership ==
    /\ exitst = "running" /\ pc = "take_ownership"
    /\ \E result \in TssResults :
        IF result # 0
        THEN /\ exitst' = "exit_status"
             /\ failed' = failed \cup { "takeOwnership" }
             /\ UNCHANGED pc
        ELSE /\ pc' = "context"
             /\ UNCHANGED << exitst, failed >>
    /\ called' = called \cup { "takeOwnership" }
    /\ UNCHANGED << args, mem, tpm, files, hist >>

\* Tspi_Context_Create; Tspi_Context_Connect
OpenSession ==
    /\ exitst = "running" /\ pc = "context"
    /\ called' = called \cup { "openSession" }
    /\ \E result \in TssResults :
        IF CKERR(result)
        THEN GotoError("openSession")
        ELSE pc' = "srk" /\ UNCHANGED << exitst, failed >>
    /\ UNCHANGED << args, mem, tpm, files, hist >>

\* Tspi_Context_LoadKeyByUUID; Tspi_GetPolicyObject; Tspi_Policy_SetSecret;
\* Tspi_Context_GetTpmObject
LoadSrk ==
    /\ exitst = "running" /\ pc = "srk"
    /\ called' = called \cup { "loadSrk" }
    /\ \E result \in TssResults :
        IF CKERR(result)
        THEN GotoError("loadSrk")
        ELSE pc' = "chal_open" /\ UNCHANGED << exitst, failed >>
    /\ UNCHANGED << args, mem, tpm, files, hist >>

\* if ((f_in = fopen(nonce_file, "rb")) == NULL) exit (1);
\* fopen is called whatever nonce_file is; a null path is undefined
\* behaviour: fopen returns NULL (EFAULT) or the process crashes.
ChallengeOpen ==
    /\ exitst = "running" /\ pc = "chal_open"
    /\ called' = called \cup { "fopenNonce" }
    /\ \/ /\ nonce_file # NullPath /\ FileExists(nonce_file)
          /\ pc' = "chal_read"
          /\ UNCHANGED exitst
       \/ /\ ~ (nonce_file # NullPath /\ FileExists(nonce_file))
          /\ Exit1
       \/ /\ nonce_file = NullPath
          /\ exitst' = "crash"
          /\ UNCHANGED pc
    /\ UNCHANGED << args, mem, tpm, files, failed, hist >>

\* fseek; ftell; malloc; if (fread(buf, 1, bufLen, f_in) != bufLen) exit (1); fclose
ChallengeRead ==
    /\ exitst = "running" /\ pc = "chal_read"
    /\ called' = called \cup { "freadNonce" }
    /\ bufLen' = Len(FileContent(nonce_file))
    /\ \E n \in { Len(FileContent(nonce_file)), 0 } :
        /\ buf' = SubSeq(FileContent(nonce_file), 1, n)
        /\ IF n # bufLen'
           THEN Exit1
           ELSE pc' = "chal_hash" /\ UNCHANGED exitst
    /\ UNCHANGED << args, bp, i, npcrMax, npcrBytes, npcrs, chalmd, pcrmd, tpm, files, failed, hist >>

\* sha1(hContext, buf, bufLen, chalmd); free (buf);
ChallengeHash ==
    /\ exitst = "running" /\ pc = "chal_hash"
    /\ called' = called \cup { "digest20" }
    /\ \E r \in sha1(SubSeq(buf, 1, bufLen), { ZeroDigest, BogusDigest }) :
        /\ chalmd' = r.md
        /\ failed' = IF r.ok THEN failed ELSE failed \cup { "digest20" }
        /\ IF r.crash
           THEN exitst' = "crash" /\ UNCHANGED pc
           ELSE pc' = "aik_open" /\ UNCHANGED exitst
    /\ UNCHANGED << args, buf, bufLen, bp, i, npcrMax, npcrBytes, npcrs, pcrmd, tpm, files, hist >>

\* if ((f_in = fopen(aik_blob_file, "rb")) == NULL) exit (1);
AikOpen ==
    /\ exitst = "running" /\ pc = "aik_open"
    /\ called' = called \cup { "fopenAik" }
    /\ IF FileExists(aik_blob_file)
       THEN pc' = "aik_read" /\ UNCHANGED exitst
       ELSE Exit1
    /\ UNCHANGED << args, mem, tpm, files, failed, hist >>

\* fseek; ftell; malloc; if (fread(buf, 1, bufLen, f_in) != bufLen) exit (1); fclose
AikRead ==
    /\ exitst = "running" /\ pc = "aik_read"
    /\ called' = called \cup { "freadAik" }
    /\ bufLen' = Len(FileContent(aik_blob_file))
    /\ \E n \in { Len(FileContent(aik_blob_file)), 0 } :
        /\ buf' = SubSeq(FileContent(aik_blob_file), 1, n)
        /\ IF n # bufLen'
           THEN Exit1
           ELSE pc' = "load_key" /\ UNCHANGED exitst
    /\ UNCHANGED << args, bp, i, npcrMax, npcrBytes, npcrs, chalmd, pcrmd, tpm, files, failed, hist >>

\* Faulty variant of LoadKeyByBlob: the CKERR after the call is missing.
LoadKeyByBlobMut ==
    /\ exitst = "running" /\ pc = "load_key"
    /\ called' = called \cup { "loadKey" }
    /\ \E result \in TssResults :
        /\ (result = 0) => BlobWellFormed(SubSeq(buf, 1, bufLen))
        /\ hAIK' = (result = 0)
        /\ failed' = IF result = 0 THEN failed ELSE failed \cup { "loadKey" }
        /\ pc' = "capability"
        /\ UNCHANGED exitst
    /\ UNCHANGED << args, mem, hPCRs, extData, compositeHash, sigData, files, hist >>

\* result = Tspi_Context_LoadKeyByBlob(hContext, hSRK, bufLen, buf, &hAIK); CKERR;
\* free(buf);
LoadKeyByBlob ==
    /\ exitst = "running" /\ pc = "load_key"
    /\ called' = called \cup { "loadKey" }
    /\ \E result \in TssResults :
        /\ (result = 0) => BlobWellFormed(SubSeq(buf, 1, bufLen))
        /\ IF CKERR(result)
           THEN GotoError("loadKey") /\ UNCHANGED hAIK
           ELSE hAIK' = TRUE /\ pc' = "capability" /\ UNCHANGED << exitst, failed >>
    /\ UNCHANGED << args, mem, hPCRs, extData, compositeHash, sigData, files, hist >>

\* tpmProp = TSS_TPMCAP_PROP_PCR; result = Tspi_TPM_GetCapability(...); CKERR;
\* npcrMax = *(UINT32 *)tmpbuf; npcrBytes = (npcrMax + 7) / 8;
GetCapability ==
    /\ exitst = "running" /\ pc = "capability"
    /\ called' = called \cup { "capability" }
    /\ \E result \in TssResults :
        IF CKERR(result)
        THEN GotoError("capability") /\ UNCHANGED << npcrMax, npcrBytes >>
        ELSE /\ \E n \in 0..MaxPcr :
                  /\ npcrMax' = n
                  /\ npcrBytes' = NpcrBytes(n)
             /\ pc' = "create_pcrs"
             /\ UNCHANGED << exitst, failed >>
    /\ UNCHANGED << args, buf, bufLen, bp, i, npcrs, chalmd, pcrmd, tpm, files, hist >>

\* result = Tspi_Context_CreateObject(hContext, TSS_OBJECT_TYPE_PCRS, ..., &hPCRs); CKERR;
CreatePcrs ==
    /\ exitst = "running" /\ pc = "create_pcrs"
    /\ called' = called \cup { "createPcrs" }
    /\ \E result \in TssResults :
        IF CKERR(result)
        THEN GotoError("createPcrs")
        ELSE pc' = "alloc" /\ UNCHANGED << exitst, failed >>
    /\ UNCHANGED << args, mem, tpm, files, hist >>

\* buf = malloc (2 + npcrBytes + 4 + 20 * npcrMax); *(UINT16 *)buf = htons(npcrBytes);
\* for (i=0; i<npcrBytes; i++) buf[2+i] = 0;   and the entry test of the selection loop
AllocBuf ==
    /\ exitst = "running" /\ pc = "alloc"
    /\ buf' = InitBuf(npcrMax)
    /\ i' = 0
    /\ pc' = IF 0 < npcrMax THEN "select" ELSE "quote"
    /\ UNCHANGED << exitst, args, bufLen, bp, npcrMax, npcrBytes, npcrs, chalmd, pcrmd,
                    tpm, files, called, failed, hist >>

\* One turn of  for (i=0; i<npcrMax; i++) { SelectPcrIndex(hPCRs, pcr); CKERR;
\*                                           ++npcrs; buf[2+(pcr/8)] |= 1 << (pcr%8); }
SelectPcr ==
    /\ exitst = "running" /\ pc = "select"
    /\ called' = called \cup { "select" }
    /\ \E result \in TssResults :
        IF CKERR(result)
        THEN GotoError("select") /\ UNCHANGED << hPCRs, npcrs, buf, i >>
        ELSE /\ hPCRs' = hPCRs \cup { i }
             /\ npcrs' = npcrs + 1
             /\ buf' = SetPcrBit(buf, i)
             /\ i' = i + 1
             /\ pc' = IF i + 1 < npcrMax THEN "select" ELSE "quote"
             /\ UNCHANGED << exitst, failed >>
    /\ UNCHANGED << args, bufLen, bp, npcrMax, npcrBytes, chalmd, pcrmd,
                    hAIK, extData, compositeHash, sigData, files, hist >>

\* valid.ulExternalDataLength = sizeof(chalmd); valid.rgbExternalData = chalmd;
\* result = Tspi_TPM_Quote(hTPM, hAIK, hPCRs, &valid); CKERR;
\* quoteInfo = (TPM_QUOTE_INFO *)valid.rgbData;
Quote ==
    /\ exitst = "running" /\ pc = "quote"
    /\ called' = called \cup { "quote" }
    /\ extData' = chalmd
    /\ \E result \in TssResults :
        IF CKERR(result)
        THEN GotoError("quote") /\ UNCHANGED << compositeHash, sigData >>
        ELSE /\ compositeHash' \in QuoteHashes(hPCRs)
             /\ sigData' = Signature
             /\ pc' = "fill_init"
             /\ UNCHANGED << exitst, failed >>
    /\ UNCHANGED << args, mem, hAIK, hPCRs, files, hist >>

\* bp = buf + 2 + npcrBytes; *(UINT32 *)bp = htonl (20*npcrs); bp += sizeof(UINT32);
FillInit ==
    /\ exitst = "running" /\ pc = "fill_init"
    /\ buf' = FillHeader(buf, npcrBytes, npcrs)
    /\ bp' = 2 + npcrBytes + 4
    /\ i' = 0
    /\ pc' = "fill"
    /\ UNCHANGED << exitst, args, bufLen, npcrMax, npcrBytes, npcrs, chalmd, pcrmd,
                    tpm, files, called, failed, hist >>

\* The test of the fill loop:  for (i=0; i<=npcrMax; i++)
FillMore(idx, n) == idx <= n

\* One turn of the fill loop: if bit i of the mask is set, the value of PCR i
\* is fetched (CKERR) and copied to bp.  Tspi_PcrComposite_GetPcrValue fails
\* for an index that is not in the composite.  A memcpy past the allocation
\* is undefined behaviour; it ends the modelled run as a crash.
FillStep ==
    /\ exitst = "running" /\ pc = "fill"
    /\ \E t \in FillTest(buf, i) :
        IF t
        THEN /\ called' = called \cup { "pcrValue" }
             /\ pcrReads' = Append(pcrReads, i)
             /\ \E result \in TssResults :
                  /\ (result = 0) => i \in hPCRs
                  /\ IF CKERR(result)
                     THEN GotoError("pcrValue") /\ UNCHANGED << buf, bp, i >>
                     ELSE IF bp + DigestLen > Len(buf)
                     THEN /\ exitst' = "crash"
                          /\ UNCHANGED << pc, failed, buf, bp, i >>
                     ELSE /\ buf' = Poke(buf, bp, PcrValue(i))
                          /\ bp' = bp + DigestLen
                          /\ i' = i + 1
                          /\ pc' = IF FillMore(i + 1, npcrMax) THEN "fill" ELSE "verify"
                          /\ UNCHANGED << exitst, failed >>
        ELSE /\ i' = i + 1
             /\ pc' = IF FillMore(i + 1, npcrMax) THEN "fill" ELSE "verify"
             /\ UNCHANGED << exitst, failed, called, pcrReads, buf, bp >>
    /\ UNCHANGED << args, bufLen, npcrMax, npcrBytes, npcrs, chalmd, pcrmd,
                    tpm, files, cmp1, cmp2, primary >>

\* bufLen = bp - buf; sha1 (hContext, buf, bufLen, pcrmd);
\* if (memcmp (pcrmd, quoteInfo->compositeHash.digest, sizeof(pcrmd)) != 0) { fallback }
TestHash ==
    /\ exitst = "running" /\ pc = "verify"
    /\ called' = called \cup { "digest20" }
    /\ bufLen' = bp
    /\ primary' = SubSeq(buf, 1, bp)
    /\ \E r \in sha1(SubSeq(buf, 1, bp), { compositeHash, BogusDigest }) :
        /\ pcrmd' = r.md
        /\ failed' = IF r.ok THEN failed ELSE failed \cup { "digest20" }
        /\ IF r.crash
           THEN exitst' = "crash" /\ UNCHANGED << pc, cmp1 >>
           ELSE /\ cmp1' = IF r.md = compositeHash THEN "equal" ELSE "unequal"
                /\ pc' = IF HashMatches(r.md, compositeHash) THEN "open" ELSE "fallback"
                /\ UNCHANGED exitst
    /\ UNCHANGED << args, buf, bp, i, npcrMax, npcrBytes, npcrs, chalmd, tpm, files,
                    cmp2, pcrReads >>

\* *(UINT16 *)buf = htons(npcrBytes-1); memmove (...); bufLen -= 1;
\* sha1(hContext, buf, bufLen, pcrmd);
\* if (memcmp (...) != 0) { log_msg("Inconsistent PCR hash in output of quote"); exit (1); }
Fallback ==
    /\ exitst = "running" /\ pc = "fallback"
    /\ called' = called \cup { "digest20" }
    /\ buf' = FallbackBuf(buf, npcrBytes, bufLen)
    /\ bufLen' = FallbackLen(bufLen)
    /\ \E r \in sha1(SubSeq(buf', 1, bufLen'), { compositeHash, BogusDigest }) :
        /\ pcrmd' = r.md
        /\ failed' = IF r.ok THEN failed ELSE failed \cup { "digest20" }
        /\ IF r.crash
           THEN exitst' = "crash" /\ UNCHANGED << pc, cmp2 >>
           ELSE /\ cmp2' = IF r.md = compositeHash THEN "equal" ELSE "unequal"
                /\ IF HashMatches(r.md, compositeHash)
                   THEN pc' = "open" /\ UNCHANGED exitst
                   ELSE Exit1
    /\ UNCHANGED << args, bp, i, npcrMax, npcrBytes, npcrs, chalmd, tpm, files,
                    cmp1, pcrReads, primary >>

\* if ((f_out = fopen (quote_file, "wb")) == NULL) exit (1);
OpenOut ==
    /\ exitst = "running" /\ pc = "open"
    /\ called' = called \cup { "fopenOut" }
    /\ \E ok \in BOOLEAN :
        IF ok
        THEN /\ f_out' = [open |-> TRUE, data |-> << >>]
             /\ outFile' = [exists |-> TRUE, data |-> << >>]
             /\ pc' = "write_record"
             /\ UNCHANGED exitst
        ELSE Exit1 /\ UNCHANGED files
    /\ UNCHANGED << args, mem, tpm, failed, hist >>

\* fwrite(src, 1, len, f_out): the counts fwrite may return.
FwriteCounts(len) == { len } \cup (IF len > 0 THEN { 0, len - 1 } ELSE {})

\* if (fwrite(buf, 1, bufLen, f_out) != bufLen) exit (1);
\* exit() flushes what the stream had accepted.
WriteRecord ==
    /\ exitst = "running" /\ pc = "write_record"
    /\ called' = called \cup { "fwrite" }
    /\ \E n \in FwriteCounts(bufLen) :
        /\ f_out' = [f_out EXCEPT !.data = @ \o SubSeq(buf, 1, n)]
        /\ IF n # bufLen
           THEN /\ Exit1
                /\ outFile' = [exists |-> TRUE, data |-> f_out'.data]
                /\ failed' = failed \cup { "fwrite" }
           ELSE /\ pc' = "write_sig"
                /\ UNCHANGED << exitst, outFile, failed >>
    /\ UNCHANGED << args, mem, tpm, hist >>

\* if (fwrite(valid.rgbValidationData, 1, valid.ulValidationDataLength, f_out)
\*         != valid.ulValidationDataLength) exit (1);
WriteSig ==
    /\ exitst = "running" /\ pc = "write_sig"
    /\ called' = called \cup { "fwrite" }
    /\ \E n \in FwriteCounts(Len(sigData)) :
        /\ f_out' = [f_out EXCEPT !.data = @ \o SubSeq(sigData, 1, n)]
        /\ IF n # Len(sigData)
           THEN /\ Exit1
                /\ outFile' = [exists |-> TRUE, data |-> f_out'.data]
                /\ failed' = failed \cup { "fwrite" }
           ELSE /\ pc' = "close"
                /\ UNCHANGED << exitst, outFile, failed >>
    /\ UNCHANGED << args, mem, tpm, hist >>

\* fclose(f_out); log_msg(" Generate Quote Success!"); return 0;
\* fclose writes the buffered data out; its result is not looked at.  When
\* the flush fails (disk full, I/O error) the data does not reach the file.
CloseOut ==
    /\ exitst = "running" /\ pc = "close"
    /\ called' = called \cup { "fclose" }
    /\ \E flushed \in BOOLEAN :
        /\ outFile' = [exists |-> TRUE, data |-> IF flushed THEN f_out.data ELSE << >>]
        /\ failed' = IF flushed THEN failed ELSE failed \cup { "fclose" }
    /\ f_out' = [f_out EXCEPT !.open = FALSE]
    /\ exitst' = "return0"
    /\ pc' = "done"
    /\ UNCHANGED << args, mem, tpm, hist >>

Next ==
    \/ TakeOwnership
    \/ OpenSession
    \/ LoadSrk
    \/ ChallengeOpen
    \/ ChallengeRead
    \/ ChallengeHash
    \/ AikOpen
    \/ AikRead
    \/ LoadKeyByBlob
    \/ GetCapability
    \/ CreatePcrs
    \/ AllocBuf
    \/ SelectPcr
    \/ Quote
    \/ FillInit
    \/ FillStep
    \/ TestHash
    \/ Fallback
    \/ OpenOut
    \/ WriteRecord
    \/ WriteSig
    \/ CloseOut

Spec == Init /\ [][Next]_vars

(***************************************************************************)
(* Vocabulary of the properties.                                           *)
(***************************************************************************)

\* ceil(n/8), as the least number of bytes that holds n bits.
CeilDiv8(n) == CHOOSE m \in 0..(n + 1) : 8 * m >= n /\ 8 * (m - 1) < n

\* Bit k of a mask (bit k mod 8 of byte k div 8).
Bit(mask, k) == (mask[(k \div 8) + 1] \div Pow2(k % 8)) % 2 = 1

PopCount(mask) == Cardinality({ k \in 0..(8 * Len(mask) - 1) : Bit(mask, k) })

\* The fields of a record u16(maskLen) || mask || u32(valueLen) || digests.
RecMaskLen(r) == r[1] * 256 + r[2]

RecParses(r) ==
    /\ Len(r) >= 6
    /\ Len(r) >= 6 + RecMaskLen(r)
    /\ (Len(r) - 6 - RecMaskLen(r)) % DigestLen = 0

RecMask(r) == SubSeq(r, 3, 2 + RecMaskLen(r))

RecValueLen(r) ==
    LET o == 2 + RecMaskLen(r)
    IN  ((r[o + 1] * 256 + r[o + 2]) * 256 + r[o + 3]) * 256 + r[o + 4]

RecDigestCount(r) == (Len(r) - 6 - RecMaskLen(r)) \div DigestLen

\* The candidate record the run currently holds.
Candidate == SubSeq(buf, 1, bufLen)

\* The stages after a candidate was accepted.
OutputStages == { "open", "write_record", "write_sig", "close", "done" }

\* The selection loop is over and the buffer has not been reshaped yet.
SelectionDone == pc \in { "quote", "fill_init", "fill", "verify" }

\* The fallback candidate has been built.
FallbackDone ==
    /\ cmp1 = "unequal"
    /\ pc \in OutputStages \/ (pc = "fallback" /\ exitst # "running")

\* The accepted record has been handed to fwrite completely.
RecordWritten == pc \in { "write_sig", "close", "done" }

OutputTouched ==
    \/ called \cap { "fopenOut", "fwrite", "fclose" } # {}
    \/ f_out.open
    \/ pc \in { "write_record", "write_sig", "close", "done" }

OutputUntouched ==
    /\ ~ OutputTouched
    /\ outFile \in { [exists |-> FALSE, data |-> << >>], [exists |-> TRUE, data |-> OldOutput] }

\* The operations of the attestation collaborator.
CollaboratorOps == { "openSession", "loadKey", "capability", "select", "quote", "pcrValue", "digest20" }

(***************************************************************************)
(* The properties.                                                         *)
(***************************************************************************)

\* C1: the output file is opened or written only after a comparison of a
\* candidate's digest with compositeHash came out equal; when the primary
\* and the fallback comparison are both unequal the run ends with exit(1)
\* in the fallback and no open or write of the output file is attempted.
C1_OutputOnlyAfterMatch ==
    /\ OutputTouched => (cmp1 = "equal" \/ cmp2 = "equal")
    /\ (cmp1 = "unequal" /\ cmp2 = "unequal") =>
          (exitst = "exit1" /\ pc = "fallback" /\ OutputUntouched)

C1_Witness ==
    /\ cmp1 = "unequal" /\ cmp2 = "unequal"
    /\ exitst = "exit1"
    /\ failed = {}
    /\ "fopenOut" \notin called
    /\ npcrMax >= 1

\* C2: for a reported PCR count N >= 1, once the selection loop is over the
\* mask has ceil(N/8) bytes (length field and room allocated), exactly N
\* set bits, bit (i mod 8) of byte (i div 8) set iff 0 <= i < N (so the
\* unused high bits of the last byte are zero), and PCRs 0..N-1 are selected.
C2_MaskWellFormed ==
    (SelectionDone /\ exitst = "running" /\ npcrMax >= 1) =>
        LET m    == RecMaskLen(buf)
            mask == SubSeq(buf, 3, 2 + m)
        IN  /\ m = CeilDiv8(npcrMax)
            /\ Len(buf) = 2 + CeilDiv8(npcrMax) + 4 + DigestLen * npcrMax
            /\ Len(mask) = CeilDiv8(npcrMax)
            /\ \A k \in 0..(8 * m - 1) : Bit(mask, k) <=> k < npcrMax
            /\ PopCount(mask) = npcrMax
            /\ hPCRs = 0..(npcrMax - 1)

C2_Witness ==
    /\ pc = "quote" /\ exitst = "running"
    /\ failed = {}
    /\ npcrMax >= 9 /\ npcrMax % 8 # 0

\* C3 (as claimed): with the challenge path omitted the run does not fail
\* at the challenge loader, reads no file, hashes nothing for the
\* challenge, and the quote call gets 20 zero bytes as external data.
C3_OmittedChallengeIsZero ==
    (nonce_file = NullPath) =>
        /\ ~ (pc = "chal_open" /\ exitst # "running")
        /\ "freadNonce" \notin called
        /\ (pc \in { "chal_open", "chal_read", "chal_hash", "aik_open" }) => "digest20" \notin called
        /\ ("quote" \in called) => extData = ZeroDigest

\* C4: when loading the identity key blob fails (the blob cannot be opened
\* or read, or Tspi_Context_LoadKeyByBlob reports an error) the run ends
\* there with a nonzero result; no capability query, PCR selection, quote
\* or PCR value read has happened and the output file is untouched.
C4_KeyLoadFailureAborts ==
    ("loadKey" \in failed \/ (pc \in { "aik_open", "aik_read", "load_key" } /\ exitst # "running")) =>
        /\ exitst \in NonZeroExits
        /\ pc \in { "aik_open", "aik_read", "load_key" }
        /\ called \cap { "capability", "createPcrs", "select", "quote", "pcrValue" } = {}
        /\ hPCRs = {}
        /\ compositeHash = << >>
        /\ OutputUntouched

C4_Witness ==
    /\ failed = { "loadKey" }
    /\ exitst = "return1"
    /\ aik_blob_file = "aik_truncated"

\* C5 (as claimed): once an operation of the attestation collaborator has
\* failed, the run has ended with a nonzero result.
C5_CollaboratorFailureIsFatal ==
    (failed \cap CollaboratorOps # {}) => exitst \in NonZeroExits

\* C6 (as claimed, in runs where no operation reported a failure): with 0
\* selectable PCRs every candidate built, the fallback candidate included,
\* has a mask-length field that is the number of mask bytes present in it
\* (0) and a value-length field of 0.
C6_ZeroPcrsNoUnderflow ==
    (failed = {} /\ npcrMax = 0 /\ "capability" \in called /\ (pc = "verify" \/ pc = "fallback" \/ pc \in OutputStages)) =>
        /\ RecMaskLen(buf) = 0
        /\ (pc # "verify" /\ ~ (pc = "fallback" /\ exitst = "running")) =>
              /\ RecMaskLen(Candidate) = Len(Candidate) - 6
              /\ RecParses(Candidate)
              /\ RecValueLen(Candidate) = 0

\* C7 (as claimed, in runs where no operation reported a failure and at
\* least one PCR is reported): every accepted and written record, whichever
\* comparison accepted it, has ceil(maxPcrCount/8) mask bytes and a
\* value-length field of 20 times its digest count, which is 20 times the
\* number of bits set in its mask.
C7_WrittenRecordInvariants ==
    (RecordWritten /\ failed = {} /\ npcrMax >= 1) =>
        /\ RecParses(Candidate)
        /\ RecMaskLen(Candidate) = CeilDiv8(npcrMax)
        /\ RecValueLen(Candidate) = DigestLen * RecDigestCount(Candidate)
        /\ RecValueLen(Candidate) = DigestLen * PopCount(RecMask(Candidate))

\* C7 (amended): a written record that was accepted by the primary
\* comparison has these invariants; one accepted by the fallback comparison is
\* one byte shorter than the primary candidate and still ends with the
\* value-length field 20*maxPcrCount followed by maxPcrCount digests, and for
\* maxPcrCount >= 1 it declares and holds ceil(maxPcrCount/8)-1 mask bytes.
C7_PrimaryRecordInvariants ==
    RecordWritten =>
        /\ cmp1 = "equal" =>
              /\ RecParses(Candidate)
              /\ RecMaskLen(Candidate) = CeilDiv8(npcrMax)
              /\ RecValueLen(Candidate) = DigestLen * RecDigestCount(Candidate)
              /\ RecValueLen(Candidate) = DigestLen * PopCount(RecMask(Candidate))
              /\ RecDigestCount(Candidate) = npcrMax
        /\ cmp1 # "equal" =>
              /\ cmp2 = "equal"
              /\ Len(Candidate) = Len(primary) - 1
              /\ SubSeq(Candidate, Len(Candidate) - DigestLen * npcrMax - 3, Len(Candidate) - DigestLen * npcrMax)
                    = Htonl(DigestLen * npcrMax)
              /\ npcrMax >= 1 =>
                    /\ RecParses(Candidate)
                    /\ RecMaskLen(Candidate) = CeilDiv8(npcrMax) - 1
                    /\ RecDigestCount(Candidate) = npcrMax
                    /\ RecValueLen(Candidate) = DigestLen * npcrMax

C7_Witness ==
    /\ pc = "done"
    /\ failed = {}
    /\ cmp1 = "unequal" /\ cmp2 = "equal"
    /\ outFile.data = Candidate \o sigData
    /\ npcrMax >= 9

\* C8 (as claimed, in runs where no collaborator operation failed): the run
\* returns 0 only if the output file exists and holds exactly the accepted
\* record followed by the signature, and a short write ends the run with a
\* nonzero exit.
C8_SuccessMeansCompleteFile ==
    /\ (exitst = "return0" /\ failed \cap CollaboratorOps = {}) =>
          /\ outFile.exists
          /\ outFile.data = Candidate \o sigData
    /\ "fwrite" \in failed => exitst \in NonZeroExits

\* C9 (as claimed, the shape in runs where no operation reported a
\* failure): the fallback candidate is built only after an unequal
\* primary comparison; it is one byte shorter than the primary candidate and
\* is u16(m-1), the first m-1 mask bytes, then the value-length field and the
\* digests of the primary candidate unchanged, m = ceil(N/8); after an equal
\* primary comparison the candidate is the primary candidate.
C9_FallbackShape ==
    /\ (cmp2 # "none" \/ (pc = "fallback" /\ exitst # "running")) => cmp1 = "unequal"
    /\ (cmp1 = "equal" /\ pc \in OutputStages) => (Candidate = primary /\ cmp2 = "none")
    /\ (FallbackDone /\ failed = {}) =>
          LET m == CeilDiv8(npcrMax)
          IN  /\ Len(Candidate) = Len(primary) - 1
              /\ RecMaskLen(Candidate) = m - 1
              /\ SubSeq(Candidate, 3, 2 + (m - 1)) = SubSeq(primary, 3, 2 + (m - 1))
              /\ SubSeq(Candidate, 2 + m, Len(Candidate)) = SubSeq(primary, 3 + m, Len(primary))

\* C10: for every reported PCR count N, when the fill loop is over the
\* candidate is u16(ceil(N/8)) || mask || u32(20*N) || the values of PCR
\* 0..N-1 in ascending order, i.e. the serialization of the composite over
\* 0..N-1; it is 2 + ceil(N/8) + 4 + 20*N bytes long and fits the
\* allocation; Tspi_PcrComposite_GetPcrValue was called for 0..N-1 in order
\* and never with an index >= N, and no copy ran past the buffer.
C10_PrimaryCandidateExact ==
    /\ \A k \in 1..Len(pcrReads) : pcrReads[k] = k - 1 /\ pcrReads[k] < npcrMax
    /\ ~ (pc = "fill" /\ exitst = "crash")
    /\ (pc = "fill" \/ pc = "verify") => bp <= Len(buf)
    /\ (pc = "verify") =>
          /\ bp = 2 + CeilDiv8(npcrMax) + 4 + DigestLen * npcrMax
          /\ Len(pcrReads) = npcrMax
          /\ SubSeq(buf, 1, bp) = TpmComposite(0..(npcrMax - 1), CeilDiv8(npcrMax))

C10_Witness ==
    /\ pc = "verify" /\ exitst = "running"
    /\ failed = {}
    /\ npcrMax >= 16 /\ npcrMax % 8 = 0
    /\ Len(pcrReads) = npcrMax

====
